---- MODULE Spec2Model ----
(***************************************************************************)
(* Hybrid text-extraction pipeline of the bank-contract OCR application:   *)
(*   src/src/pipeline/pdf_utils.py  extract_all_pages_text and helpers     *)
(*   src/src/pipeline/ocr.py        run_ocr, _get_ocr_model, line grouping *)
(*   src/src/pipeline/preprocess.py preprocess_pil_image                   *)
(*                                                                         *)
(* A text is a sequence of characters; a character is a one-token string.  *)
(* Cyrillic letters are written "CY_x" (upper case) and "cy_x" (lower      *)
(* case), the dotless i is "i_dotless", the dotted capital I is "I_dot".   *)
(* Ratios of the source (float divisions compared with a literal) are      *)
(* compared by cross-multiplication over the integers.                     *)
(***************************************************************************)
EXTENDS Integers, Sequences, FiniteSets, TLC

VARIABLES
    heur_pc, heur_in, heur_out,     \* _looks_corrupted_text applied to a text
    dec_pc, dec_in, dec_out,        \* run_ocr's decoding applied to an engine response
    \* extract_all_pages_text
    pc,             \* position in the call
    cfg,            \* the arguments dpi, max_pages, force_ocr, strong_mode
    doc_len,        \* number of pages of the document
    i,              \* the loop variable (0-based)
    all_text,       \* the sections collected so far
    n_images,       \* len(images) on the all-pages-OCR path
    pil_img,        \* the rasterized page
    page_text,      \* the OCR text of the page
    result,         \* what the call gives its caller
    ocr_model,      \* the module global _ocr_model of ocr.py
    \* history of the run, for the properties
    page_log,       \* the current page: direct text, DPI, run_ocr calls in progress
    paths,          \* per section, the path that produced it
    ctor_calls,     \* invocations of the PaddleOCR constructor
    ctor_failures   \* invocations of it that raised

heurVars == <<heur_pc, heur_in, heur_out>>

decVars == <<dec_pc, dec_in, dec_out>>

pipeVars == <<pc, cfg, doc_len, i, all_text, n_images, pil_img, page_text, result, ocr_model,
              page_log, paths, ctor_calls, ctor_failures>>

vars == <<heur_pc, heur_in, heur_out, dec_pc, dec_in, dec_out,
          pc, cfg, doc_len, i, all_text, n_images, pil_img, page_text, result, ocr_model,
          page_log, paths, ctor_calls, ctor_failures>>

(***************************************************************************)
(* Characters and Python's str predicates                                  *)
(***************************************************************************)
NL == "\n"

SP == " "

LatinLetters == {"I", "l", "a", "b", "c", "d", "e", "i_dotless", "I_dot"}

CyrUpper == {"CY_K", "CY_O", "CY_N", "CY_T", "CY_R", "CY_A", "CY_D", "CY_S", "CY_V"}

CyrLower == {"cy_a", "cy_t", "cy_o", "cy_n", "cy_r", "cy_g", "cy_e", "cy_l",
             "cy_yu", "cy_u", "cy_m"}

Digits == {"1", "2"}

Punct == {"|", "."}

\* str.isalpha(): Latin and Cyrillic letters, the dotless i, the dotted I;
\* neither digits nor punctuation ('|' is not alphabetic).
IsAlpha(ch) == ch \in LatinLetters \cup CyrUpper \cup CyrLower

\* characters str.strip() removes
IsSpace(ch) == ch \in {SP, NL}

MinOf(S) == CHOOSE m \in S : \A k \in S : m <= k

MaxOf(S) == CHOOSE m \in S : \A k \in S : m >= k

\* str.strip()
Strip(t) ==
    LET keep == {k \in 1..Len(t) : ~IsSpace(t[k])}
    IN  IF keep = {} THEN <<>> ELSE SubSeq(t, MinOf(keep), MaxOf(keep))

\* text.replace("\n", "")
RemoveNewlines(t) == SelectSeq(t, LAMBDA ch : ch # NL)

\* set(s)
CharSet(s) == {s[k] : k \in 1..Len(s)}

\* number of positions of s whose character satisfies P
CountIf(s, P(_)) == Cardinality({k \in 1..Len(s) : P(s[k])})

\* kw in text
Contains(text, kw) ==
    \E k \in 0..(Len(text) - Len(kw)) :
        \A j \in 1..Len(kw) : text[k + j] = kw[j]

\* n copies of the characters of pat, cycled
Cycle(pat, n) == [k \in 1..n |-> pat[((k - 1) % Len(pat)) + 1]]

(***************************************************************************)
(* _looks_corrupted_text (pdf_utils.py 196-226)                            *)
(***************************************************************************)
BrokenGlyphs == {"I", "l", "|", "i_dotless", "I_dot"}

\* 'А' <= ch <= 'я' or ch in 'Ёё'
IsCyr(ch) == ch \in CyrUpper \cup CyrLower

keywords ==
    { <<"CY_K", "CY_O", "CY_N", "CY_T", "CY_R", "CY_A", "CY_K", "CY_T">>,
      <<"CY_D", "cy_a", "cy_t", "cy_a">>,
      <<"CY_K", "cy_o", "cy_n", "cy_t", "cy_r", "cy_a", "cy_g", "cy_e", "cy_n", "cy_t">>,
      <<"CY_S", "cy_t", "cy_r", "cy_a", "cy_n", "cy_a">>,
      <<"CY_V", "cy_a", "cy_l", "cy_yu", "cy_t", "cy_a">>,
      <<"CY_S", "cy_u", "cy_m", "cy_m", "cy_a">> }

looks_corrupted_text(text) ==
    IF text = <<>> THEN TRUE
    ELSE
    LET s       == RemoveNewlines(text)
        letters == SelectSeq(s, IsAlpha)
        bad     == CountIf(letters, LAMBDA ch : ch \in BrokenGlyphs)
        cyr     == CountIf(s, IsCyr)
    IN  IF Len(s) < 20 THEN TRUE
        \* bad_ratio >= 0.5 (bad_ratio is 0.0 when there are no letters)
        ELSE IF Len(letters) > 0 /\ 2 * bad >= Len(letters) THEN TRUE
        \* uniq_ratio < 0.20 and len(letters) > 0
        ELSE IF 5 * Cardinality(CharSet(s)) < Len(s) /\ Len(letters) > 0 THEN TRUE
        \* any(kw in text) and cyr_ratio < 0.02
        ELSE IF (\E kw \in keywords : Contains(text, kw)) /\ 50 * cyr < Len(s) THEN TRUE
        ELSE FALSE

(***************************************************************************)
(* The heuristic applied to bounded inputs                                 *)
(***************************************************************************)
HeurLen == 25

\* characters that may fill the positions not taken by I, l and |
HeurFill == {"a", "b", "1", "2", ".", SP, "cy_a", "i_dotless"}

\* the fill characters of an input: none, one or two
HeurFills ==
    {<<>>} \cup {<<x>> : x \in HeurFill} \cup {<<x, y>> : x \in HeurFill, y \in HeurFill}

\* a text of HeurLen characters: nI times I, nl times l, the fill characters,
\* and | in every remaining position
HeurText(nI, nl, fill) ==
    Cycle(<<"I">>, nI) \o Cycle(<<"l">>, nl)
        \o Cycle(<<"|">>, HeurLen - Len(fill) - nI - nl) \o fill

HeurInputs ==
    { HeurText(c[1], c[2], c[3]) :
        c \in { d \in (0..HeurLen) \X (0..HeurLen) \X HeurFills :
                    d[1] + d[2] + Len(d[3]) <= HeurLen } }

HeurIdle ==
    /\ heur_pc = "off"
    /\ heur_in = <<>>
    /\ heur_out = FALSE

DecIdle ==
    /\ dec_pc = "off"
    /\ dec_in = [shape |-> "none"]
    /\ dec_out = <<>>

NoImage == [width |-> 0, height |-> 0, strong |-> FALSE]

NoPage == [direct_tried |-> FALSE, direct_text |-> <<>>, use_dpi |-> 0, calls |-> <<>>]

PipeIdle ==
    /\ pc = "off"
    /\ cfg = [dpi |-> 0, max_pages |-> 0, force_ocr |-> FALSE, strong_mode |-> FALSE]
    /\ doc_len = 0
    /\ i = 0
    /\ all_text = <<>>
    /\ n_images = 0
    /\ pil_img = NoImage
    /\ page_text = <<>>
    /\ result = [kind |-> "pending"]
    /\ ocr_model = "None"
    /\ page_log = NoPage
    /\ paths = <<>>
    /\ ctor_calls = 0
    /\ ctor_failures = 0

HeurInit ==
    /\ heur_pc = "input"
    /\ heur_in \in HeurInputs
    /\ heur_out = FALSE
    /\ DecIdle
    /\ PipeIdle

HeurApply ==
    /\ heur_pc = "input"
    /\ heur_out' = looks_corrupted_text(heur_in)
    /\ heur_pc' = "done"
    /\ UNCHANGED <<heur_in, decVars, pipeVars>>

HeurNext == HeurApply

SpecHeur == HeurInit /\ [][HeurNext]_vars

\* the characters of the claim's set {I, l, |}
IlBar(ch) == ch \in {"I", "l", "|"}

\* C8: _looks_corrupted_text returns true for every 25-character string in
\* which at least 90% of the characters are drawn from {I, l, |}, whatever
\* the remaining characters are.
C8_FlagsEveryIlBarText ==
    (heur_pc = "done" /\ Len(heur_in) = 25
        /\ 10 * CountIf(heur_in, IlBar) >= 9 * Len(heur_in))
    => heur_out = TRUE

(***************************************************************************)
(* OCR engine responses and their decoding (ocr.py)                        *)
(*                                                                         *)
(* Box coordinates are given in half pixels (int() truncates them to whole *)
(* pixels); confidences are given in hundredths.  A legacy item is         *)
(* [kind, box, text, conf]: kind "pair" is (box, (text, conf)), kind "bad" *)
(* is an item the unpacking of which raises (the None of a page without    *)
(* detections).  mid_y and the median height are kept doubled (mid2,       *)
(* med2) and the running average of a group as the sum of its members, so  *)
(* that every comparison is exact integer arithmetic.                      *)
(***************************************************************************)
\* int(p[0]) for a non-negative coordinate given in half pixels
IntOf(v2) == v2 \div 2

AbsVal(v) == IF v < 0 THEN 0 - v ELSE v

\* list.sort(key=...): stable; Less(a, b) is key(a) < key(b)
SortBy(s, Less(_, _)) ==
    LET F[k \in 0..Len(s)] ==
            IF k = 0 THEN <<>>
            ELSE LET prev == F[k - 1]
                     x    == s[k]
                     pos  == Cardinality({j \in 1..Len(prev) : ~Less(x, prev[j])})
                 IN  SubSeq(prev, 1, pos) \o <<x>> \o SubSeq(prev, pos + 1, Len(prev))
    IN  F[Len(s)]

\* sep.join(parts)
Join(parts, sep) ==
    LET F[k \in 0..Len(parts)] ==
            IF k = 0 THEN <<>>
            ELSE IF k = 1 THEN parts[1]
            ELSE F[k - 1] \o sep \o parts[k]
    IN  F[Len(parts)]

\* _flatten_result (ocr.py 24-30)
flatten_result(response) ==
    IF response.shape = "nested" THEN response.items
    ELSE IF response.shape = "flat" THEN response.items
    ELSE <<>>

\* the dictionary built for one item (ocr.py 40-52)
BoxOf(item) ==
    LET xs     == {IntOf(item.box[k][1]) : k \in 1..Len(item.box)}
        ys     == {IntOf(item.box[k][2]) : k \in 1..Len(item.box)}
        top    == MinOf(ys)
        bottom == MaxOf(ys)
    IN  [text   |-> item.text,
         left   |-> MinOf(xs),
         right  |-> MaxOf(xs),
         mid2   |-> top + bottom,
         height |-> IF bottom - top < 1 THEN 1 ELSE bottom - top]

\* twice statistics.median(heights)
Median2(heights) ==
    LET srt == SortBy(heights, LAMBDA a, b : a < b)
        n   == Len(srt)
    IN  IF n % 2 = 1 THEN 2 * srt[(n + 1) \div 2]
        ELSE srt[n \div 2] + srt[(n \div 2) + 1]

\* 20 * line_tol, line_tol = max(8, median_h * 0.6)
LineTol20(med2) == IF 6 * med2 > 160 THEN 6 * med2 ELSE 160

\* a membership test with twice the tolerance
WithinLineDoubled(b, sum2, n, med2) ==
    10 * AbsVal(n * b.mid2 - sum2) <= 2 * n * LineTol20(med2)

\* abs(b["mid_y"] - cur_y) <= line_tol, cur_y = sum2 / (2 * n)
WithinLine(b, sum2, n, med2) ==
    10 * AbsVal(n * b.mid2 - sum2) <= n * LineTol20(med2)

\* a word break only at gaps above seven times the median height
WordBreakWide(gap, med2) == 20 * gap > 70 * med2

\* gap > median_h * 0.7
WordBreak(gap, med2) == 20 * gap > 7 * med2

\* _merge_boxes_into_words (ocr.py 84-103)
merge_boxes_into_words(boxes, med2) ==
    IF boxes = <<>> THEN <<>>
    ELSE
    LET srt == SortBy(boxes, LAMBDA a, b : a.left < b.left)
        \* F[k]: (words, current_word) after the first k boxes
        F[k \in 1..Len(srt)] ==
            IF k = 1 THEN [words |-> <<>>, cur |-> srt[1].text]
            ELSE LET p   == F[k - 1]
                     gap == srt[k].left - srt[k - 1].right
                 IN  IF WordBreak(gap, med2)
                     THEN [words |-> Append(p.words, p.cur), cur |-> srt[k].text]
                     ELSE [words |-> p.words, cur |-> p.cur \o srt[k].text]
        fin == F[Len(srt)]
    IN  Join(Append(fin.words, fin.cur), <<SP>>)

\* the boxes of the items whose unpacking does not raise (ocr.py 37-52)
BoxesOf(items) ==
    LET F[k \in 0..Len(items)] ==
            IF k = 0 THEN <<>>
            ELSE IF items[k].kind = "pair" THEN Append(F[k - 1], BoxOf(items[k]))
            ELSE F[k - 1]
    IN  F[Len(items)]

\* the groups of the sweep (ocr.py 57-79): the boxes sorted by (mid_y, left),
\* a box joining the current group when it is within the tolerance of the
\* group's running average
LineGroups(boxes) ==
    LET srt  == SortBy(boxes, LAMBDA a, b :
                    a.mid2 < b.mid2 \/ (a.mid2 = b.mid2 /\ a.left < b.left))
        med2 == Median2([k \in 1..Len(srt) |-> srt[k].height])
        F[k \in 1..Len(srt)] ==
            IF k = 1 THEN [lines |-> <<>>, current |-> <<srt[1]>>, sum2 |-> srt[1].mid2]
            ELSE LET p == F[k - 1]
                     b == srt[k]
                 IN  IF WithinLine(b, p.sum2, Len(p.current), med2)
                     THEN [lines   |-> p.lines,
                           current |-> Append(p.current, b),
                           sum2    |-> p.sum2 + b.mid2]
                     ELSE [lines   |-> Append(p.lines, p.current),
                           current |-> <<b>>,
                           sum2    |-> b.mid2]
        fin == F[Len(srt)]
    IN  IF boxes = <<>> THEN <<>> ELSE Append(fin.lines, fin.current)

\* _group_boxes_to_lines (ocr.py 32-81)
group_boxes_to_lines(items) ==
    LET boxes  == BoxesOf(items)
        groups == LineGroups(boxes)
        med2   == Median2([k \in 1..Len(boxes) |-> boxes[k].height])
    IN  [k \in 1..Len(groups) |-> merge_boxes_into_words(groups[k], med2)]

\* _parse_old_format (ocr.py 166-185)
parse_old_format(response) ==
    LET items == flatten_result(response)
        lines == group_boxes_to_lines(items)
        \* the fallback of lines 172-180: the texts of the items that unpack
        txts  == SelectSeq(items, LAMBDA it : it.kind = "pair")
    IN  IF lines = <<>>
        THEN Join([k \in 1..Len(txts) |-> txts[k].text], <<SP>>)
        ELSE Join(lines, <<NL>>)

\* rec_scores[i] if i < len(rec_scores) else 0.0
ScoreAt(rec_scores, k) == IF k <= Len(rec_scores) THEN rec_scores[k] ELSE 0

\* the lines kept from a structured response (ocr.py 141-151)
DictLines(ocr_data) ==
    LET F[k \in 0..Len(ocr_data.rec_texts)] ==
            IF k = 0 THEN <<>>
            ELSE IF ScoreAt(ocr_data.rec_scores, k) > 50
                 THEN Append(F[k - 1], ocr_data.rec_texts[k])
            ELSE F[k - 1]
    IN  F[Len(ocr_data.rec_texts)]

\* run_ocr from the engine's answer on (ocr.py 132-164): the text returned.
\* A response of shape "raise" stands for ocr_model.ocr raising, "badscore"
\* for a structured response a score of which cannot be compared (None):
\* both end in the handler of line 160.
decode_result(response) ==
    IF response.shape \in {"raise", "badscore"} THEN <<>>
    ELSE IF response.shape \in {"none", "other"} THEN <<>>
    ELSE IF response.shape = "dict" THEN Join(DictLines(response), <<NL>>)
    ELSE parse_old_format(response)

(***************************************************************************)
(* The decoding applied to bounded engine responses                        *)
(***************************************************************************)
\* the texts of the detections of a response, in order: distinct, so that a
\* detection is recognised in the output by its text
DetTexts == <<"a", "b", "c">>

\* tops of the boxes: 0, 4, ..., 4 * MaxTopK pixels
MaxTopK == 3

\* heights of the boxes in pixels: a small glyph (tolerance 8) and a large
\* one (tolerance 0.6 * 20 = 12 when it is the median)
DetHeights == {2, 20}

\* left edges in half pixels: 0 and 10.5 pixels; every box is 4 pixels wide
DetLefts2 == {0, 21}

\* confidences and scores in hundredths
DetConfs == {30, 90}

DictScores == {0, 50, 51, 90}

\* the quadrilateral of an axis-aligned box, coordinates in half pixels
Quad(left2, top, height) ==
    << <<left2, 2 * top>>, <<left2 + 8, 2 * top>>,
       <<left2 + 8, 2 * (top + height)>>, <<left2, 2 * (top + height)>> >>

\* what the k-th item of a legacy response may be
LegacyItems(k) ==
    { [kind |-> "pair", box |-> Quad(l2, 4 * tk, h),
       text |-> <<DetTexts[k]>>, conf |-> cf] :
          l2 \in DetLefts2, tk \in 0..MaxTopK, h \in DetHeights, cf \in DetConfs }
    \cup { [kind |-> "bad", box |-> <<>>, text |-> <<>>, conf |-> 0] }

\* the item lists of a legacy response: one, two or three items
LegacyItemLists ==
    { <<a>> : a \in LegacyItems(1) }
    \cup { <<a, b>> : a \in LegacyItems(1), b \in LegacyItems(2) }
    \cup { <<a, b, c>> : a \in LegacyItems(1), b \in LegacyItems(2), c \in LegacyItems(3) }

LegacyResponses ==
    { [shape |-> sh, items |-> its] : sh \in {"nested", "flat"}, its \in LegacyItemLists }

DictResponses ==
    UNION { { [shape |-> "dict",
               rec_texts |-> [k \in 1..n |-> <<DetTexts[k]>>],
               rec_scores |-> sc] :
                sc \in UNION {[1..m -> DictScores] : m \in 0..n} } :
            n \in 0..Len(DetTexts) }

OtherResponses ==
    { [shape |-> "none"], [shape |-> "other"], [shape |-> "raise"],
      [shape |-> "badscore"], [shape |-> "nested", items |-> <<>>] }

DecInputs == LegacyResponses \cup DictResponses \cup OtherResponses

DecInit ==
    /\ dec_pc = "input"
    /\ dec_in \in DecInputs
    /\ dec_out = <<>>
    /\ HeurIdle
    /\ PipeIdle

DecApply ==
    /\ dec_pc = "input"
    /\ dec_out' = decode_result(dec_in)
    /\ dec_pc' = "done"
    /\ UNCHANGED <<dec_in, heurVars, pipeVars>>

DecNext == DecApply

SpecDecode == DecInit /\ [][DecNext]_vars

\* whether the decoded response is a legacy one
DecLegacy == dec_in.shape \in {"nested", "flat"}

\* C9: for both response shapes the text of a detection appears in the
\* returned string only if its confidence is strictly greater than 0.5; a
\* detection with confidence at most 0.5, or with no score, never contributes.
C9_OnlyConfidentDetections ==
    dec_pc = "done" =>
        /\ dec_in.shape = "dict" =>
             \A k \in 1..Len(dec_in.rec_texts) :
                 dec_in.rec_texts[k][1] \in CharSet(dec_out)
                     => (k <= Len(dec_in.rec_scores) /\ dec_in.rec_scores[k] > 50)
        /\ DecLegacy =>
             \A k \in 1..Len(dec_in.items) :
                 (dec_in.items[k].kind = "pair"
                     /\ dec_in.items[k].text[1] \in CharSet(dec_out))
                     => dec_in.items[k].conf > 50

\* the same statement for the structured response alone, which the code
\* filters (ocr.py 146-149)
DictOnlyConfident ==
    (dec_pc = "done" /\ dec_in.shape = "dict") =>
        \A k \in 1..Len(dec_in.rec_texts) :
            dec_in.rec_texts[k][1] \in CharSet(dec_out)
                <=> (k <= Len(dec_in.rec_scores) /\ dec_in.rec_scores[k] > 50)

\* the boxes of the decoded legacy response
DecBoxes == IF DecLegacy THEN BoxesOf(dec_in.items) ELSE <<>>

\* 20 * the tolerance of the decoded legacy response
DecTol20 == LineTol20(Median2([k \in 1..Len(DecBoxes) |-> DecBoxes[k].height]))

\* the output line (0, 1, ...) that holds the text of box b
OutLineOf(b) ==
    LET pos == CHOOSE k \in 1..Len(dec_out) : dec_out[k] = b.text[1]
    IN  Cardinality({j \in 1..pos : dec_out[j] = NL})

\* the vertical centres of a and b differ by more than the tolerance
FarApart(a, b, tol20) == 10 * AbsVal(a.mid2 - b.mid2) > tol20

\* among the boxes bx, a lies above b across a vertical gap wider than the
\* tolerance that holds no centre: every centre is at most lo or at least hi
ClearGap(bx, a, b, tol20) ==
    \E k, m \in 1..Len(bx) :
        /\ a.mid2 <= bx[k].mid2 /\ bx[m].mid2 <= b.mid2
        /\ 10 * (bx[m].mid2 - bx[k].mid2) > tol20
        /\ \A j \in 1..Len(bx) : bx[j].mid2 <= bx[k].mid2 \/ bx[j].mid2 >= bx[m].mid2

\* C10 as stated: two detections whose vertical centres differ by more than
\* the tolerance are never placed in the same output line.
C10_FarApartNeverSameLine ==
    (dec_pc = "done" /\ DecLegacy) =>
        LET bx    == DecBoxes
            tol20 == DecTol20
            ln    == [k \in 1..Len(bx) |-> OutLineOf(bx[k])]
        IN  \A k, m \in 1..Len(bx) :
                FarApart(bx[k], bx[m], tol20) => ln[k] # ln[m]

\* C10 amended: two detections separated by a vertical gap wider than the
\* tolerance that holds no detection centre are never placed in the same
\* output line.
C10_ClearGapNeverSameLine ==
    (dec_pc = "done" /\ DecLegacy) =>
        LET bx    == DecBoxes
            tol20 == DecTol20
            ln    == [k \in 1..Len(bx) |-> OutLineOf(bx[k])]
        IN  \A k, m \in 1..Len(bx) :
                ClearGap(bx, bx[k], bx[m], tol20) => ln[k] # ln[m]

\* three detections decoded: two with different centres share a line and
\* the third lies across a clear gap from both, in a line of its own
C10_Witness ==
    /\ dec_pc = "done" /\ DecLegacy /\ Len(DecBoxes) = 3
    /\ LET bx    == DecBoxes
           tol20 == DecTol20
           ln    == [k \in 1..Len(bx) |-> OutLineOf(bx[k])]
       IN  \E k, m, n \in 1..3 :
              /\ k # m
              /\ ln[k] = ln[m]
              /\ bx[k].mid2 # bx[m].mid2
              /\ ClearGap(bx, bx[k], bx[n], tol20)
              /\ ClearGap(bx, bx[m], bx[n], tol20)
              /\ ln[n] # ln[k]

(***************************************************************************)
(* Images and the Image Preprocessor (preprocess.py 21-49)                 *)
(*                                                                         *)
(* An image is its size in pixels and whether the strong enhancement       *)
(* (CLAHE and unsharp masking) has been applied to it.                     *)
(***************************************************************************)
target_width == 1800

\* round(a / b) for positive integers
RoundDiv(a, b) == (2 * a + b) \div (2 * b)

preprocess_pil_image(img, strong) ==
    [width  |-> IF img.width < target_width THEN target_width ELSE img.width,
     height |-> IF img.width < target_width
                THEN RoundDiv(img.height * target_width, img.width)
                ELSE img.height,
     strong |-> img.strong \/ strong]

max_size == 2200

\* img.thumbnail((max_size, max_size)) when a side exceeds max_size
Thumbnail(img) ==
    IF img.width > max_size \/ img.height > max_size
    THEN IF img.width >= img.height
         THEN [img EXCEPT !.width = max_size,
                          !.height = RoundDiv(img.height * max_size, img.width)]
         ELSE [img EXCEPT !.height = max_size,
                          !.width = RoundDiv(img.width * max_size, img.height)]
    ELSE img

(***************************************************************************)
(* The OCR Invoker (ocr.py 7-22, 105-164)                                  *)
(***************************************************************************)
\* _get_ocr_model: model is the global before the call, ctor_ok whether the
\* PaddleOCR constructor succeeds when it is invoked.  The global is
\* assigned only when it is None and the constructor returns.
get_ocr_model(model, ctor_ok) ==
    IF model = "None"
    THEN [model  |-> IF ctor_ok THEN "PaddleOCR" ELSE "None",
          ctor   |-> 1,
          raised |-> ~ctor_ok]
    ELSE [model |-> model, ctor |-> 0, raised |-> FALSE]

\* strong = pil_img.width * pil_img.height > 1800 * 1800
LargePage(img) == img.width * img.height > 1800 * 1800

\* the body of run_ocr's try block after the engine was acquired (acq):
\* env gives what the collaborators do (pre_ok: preprocess_pil_image
\* returns; response: the engine's answer).  failure names the statement
\* whose exception reaches the handler of line 160, "none" when there is none.
TryBody(acq, img, do_preprocess, env) ==
    LET pre == IF acq.raised THEN "skipped"
               ELSE IF ~do_preprocess THEN "skipped"
               ELSE IF ~env.pre_ok THEN "raised"
               ELSE IF LargePage(img) THEN "strong" ELSE "normal"
        failure == IF acq.raised THEN "acquire"
                   ELSE IF env.response.shape = "raise" THEN "engine"
                   ELSE IF env.response.shape = "badscore" THEN "decode"
                   ELSE "none"
    IN  [model   |-> acq.model,
         ctor    |-> acq.ctor,
         ctor_failed |-> IF acq.raised THEN 1 ELSE 0,
         failure |-> failure,
         pre     |-> pre,
         arr     |-> IF acq.raised THEN NoImage
                     ELSE IF pre \in {"strong", "normal"}
                     THEN Thumbnail(preprocess_pil_image(img, pre = "strong"))
                     ELSE Thumbnail(img),
         text    |-> IF failure = "none" THEN decode_result(env.response) ELSE <<>>]

\* lines 107-158: env.ctor_ok tells whether the constructor succeeds
run_ocr_try(model, img, do_preprocess, env) ==
    TryBody(get_ocr_model(model, env.ctor_ok), img, do_preprocess, env)

\* a run_ocr whose handler does not cover the acquisition of the engine
CaughtButAcquire(r, img, do_preprocess) ==
    [model  |-> r.model,
     ctor   |-> r.ctor,
     ctor_failed |-> r.ctor_failed,
     raised |-> r.failure = "acquire",
     text   |-> IF r.failure = "none" THEN r.text ELSE <<>>,
     call   |-> [do_preprocess |-> do_preprocess,
                 img     |-> img,
                 pre     |-> r.pre,
                 arr     |-> r.arr,
                 failure |-> r.failure,
                 raised  |-> r.failure = "acquire",
                 text    |-> IF r.failure = "none" THEN r.text ELSE <<>>]]

\* what run_ocr hands back when its body ended as r: every exception of the
\* body is caught (ocr.py 160-164) and the empty string returned
Caught(r, img, do_preprocess) ==
    [model  |-> r.model,
     ctor   |-> r.ctor,
     ctor_failed |-> r.ctor_failed,
     raised |-> FALSE,
     text   |-> IF r.failure = "none" THEN r.text ELSE <<>>,
     call   |-> [do_preprocess |-> do_preprocess,
                 img     |-> img,
                 pre     |-> r.pre,
                 arr     |-> r.arr,
                 failure |-> r.failure,
                 raised  |-> FALSE,
                 text    |-> IF r.failure = "none" THEN r.text ELSE <<>>]]

\* run_ocr (ocr.py 105-164)
run_ocr(model, img, do_preprocess, env) ==
    Caught(run_ocr_try(model, img, do_preprocess, env), img, do_preprocess)

(***************************************************************************)
(* The Direct-Text Extractor (pdf_utils.py 142-166)                        *)
(*                                                                         *)
(* A page gives its blocks (top and left in thousandths of a point, the    *)
(* text, whether the fifth field is a str), its plain text, and whether    *)
(* get_text("blocks") or get_text("text") raises.                          *)
(***************************************************************************)
\* round(v, 2) of a coordinate given in thousandths, in hundredths
Round2(v) ==
    LET q == v \div 10
        r == v % 10
    IN  IF r < 5 THEN q
        ELSE IF r > 5 THEN q + 1
        ELSE IF q % 2 = 0 THEN q ELSE q + 1

direct_text_from_page(page) ==
    LET plain == IF page.plain_raise THEN <<>> ELSE Strip(page.plain)
        blocks == SelectSeq(page.blocks, LAMBDA b : b.is_str)
        srt    == SortBy(blocks, LAMBDA a, b :
                      Round2(a.y0) < Round2(b.y0)
                      \/ (Round2(a.y0) = Round2(b.y0) /\ Round2(a.x0) < Round2(b.x0)))
        kept   == SelectSeq(srt, LAMBDA b : Strip(b.text) # <<>>)
        text   == Join([k \in 1..Len(kept) |-> Strip(kept[k].text)], <<NL>>)
    IN  IF page.blocks_raise THEN plain
        ELSE IF Strip(text) = <<>> THEN plain
        ELSE text

(***************************************************************************)
(* The Page Pipeline Orchestrator: extract_all_pages_text                  *)
(* (pdf_utils.py 58-139)                                                   *)
(***************************************************************************)
\* the marker line of page k (the source writes the word in Russian)
Marker(k) == "=== STRANITSA " \o ToString(k) \o " ==="

\* f"=== ... {k} ===\n{body}"
Section(k, body) == <<Marker(k), NL>> \o body

\* total_pages = min(len(doc), max_pages)
total_pages == IF doc_len < cfg.max_pages THEN doc_len ELSE cfg.max_pages

\* a rasterization at the configured dpi
use_dpi_as_configured(dpi) == dpi

\* use_dpi = max(300, dpi)
use_dpi_of(dpi) == IF dpi > 300 THEN dpi ELSE 300

\* an acceptance that asks for more than 25 characters
AcceptDirectOver25(direct_text) ==
    /\ direct_text # <<>>
    /\ Len(Strip(direct_text)) > 25
    /\ ~looks_corrupted_text(direct_text)

\* direct_text and len(direct_text.strip()) >= 25 and not _looks_corrupted_text
AcceptDirect(direct_text) ==
    /\ direct_text # <<>>
    /\ Len(Strip(direct_text)) >= 25
    /\ ~looks_corrupted_text(direct_text)

\* a retry that does not look at strong_mode
NeedsRetryAnyMode(strong_mode, text) == Strip(text) = <<>>

\* the retry of lines 113-122 is taken: strong_mode is off and the first
\* text is empty after strip()
NeedsRetry(strong_mode, text) == ~strong_mode /\ Strip(text) = <<>>

\* the rasterized page: a page of w x h points at use_dpi
Rasterized(size, use_dpi) ==
    [width  |-> RoundDiv(size[1] * use_dpi, 72),
     height |-> RoundDiv(size[2] * use_dpi, 72),
     strong |-> FALSE]

\* a page-level handler that drops the page instead of emitting its marker
PageFailsSilently ==
    /\ all_text' = all_text
    /\ paths' = paths
    /\ i' = i + 1
    /\ pil_img' = NoImage
    /\ pc' = "loop"

\* the except branch of lines 132-134, and the end of an iteration
PageFails ==
    /\ all_text' = Append(all_text, Section(i + 1, <<>>))
    /\ paths' = Append(paths, "error")
    /\ i' = i + 1
    /\ pil_img' = NoImage
    /\ pc' = "loop"

(***************************************************************************)
(* Bounded inputs of a run                                                 *)
(***************************************************************************)
MaxDocPages == 3

MaxCap == 2

Configs ==
    [dpi : {200, 400}, max_pages : 1..MaxCap, force_ocr : BOOLEAN, strong_mode : BOOLEAN]

CleanChars == <<"a", "b", "c", "d", "e", "1", "2", ".">>

TextX == Cycle(CleanChars, 12)

TextY == Cycle(CleanChars, 22)

TextB == Cycle(<<"I", "l", "|">>, 13)

Pad(t) == <<SP>> \o t \o <<NL>>

Blk(y0, x0, text) == [y0 |-> y0, x0 |-> x0, text |-> text, is_str |-> TRUE]

PageOf(blocks, plain, blocks_raise, plain_raise) ==
    [blocks |-> blocks, plain |-> plain,
     blocks_raise |-> blocks_raise, plain_raise |-> plain_raise]

\* the pages a document is made of
Pages ==
    { PageOf(<<Blk(0, 0, TextX), Blk(1000, 0, TextX)>>, <<>>, FALSE, FALSE),
      PageOf(<<Blk(1004, 5000, Pad(TextX)), Blk(1000, 0, TextY)>>, <<>>, FALSE, FALSE),
      PageOf(<<Blk(0, 0, TextY)>>, <<>>, FALSE, FALSE),
      PageOf(<<Blk(0, 0, TextB), Blk(1000, 0, TextB)>>, <<>>, FALSE, FALSE),
      PageOf(<<Blk(0, 0, TextB)>>, <<>>, FALSE, FALSE),
      PageOf(<<>>, <<>>, FALSE, FALSE),
      PageOf(<<>>, Pad(TextX \o <<NL>> \o TextX), FALSE, FALSE),
      PageOf(<<>>, Pad(TextY), TRUE, FALSE),
      PageOf(<<>>, TextY, TRUE, TRUE),
      PageOf(<<Blk(0, 0, <<SP, NL>>), [Blk(0, 0, TextY) EXCEPT !.is_str = FALSE]>>,
             <<>>, FALSE, FALSE) }

\* page sizes in points: A4, and a small page
PageSizes == { <<595, 842>>, <<300, 300>> }

\* what the engine may answer in a run
PipeResponses ==
    { [shape |-> "raise"], [shape |-> "none"], [shape |-> "badscore"],
      [shape |-> "dict", rec_texts |-> << <<"a">> >>, rec_scores |-> <<90>>],
      [shape |-> "dict", rec_texts |-> << <<SP>> >>, rec_scores |-> <<90>>],
      [shape |-> "dict", rec_texts |-> << <<"b">> >>, rec_scores |-> <<30>>],
      [shape |-> "flat",
       items |-> << [kind |-> "pair", box |-> Quad(0, 0, 20),
                     text |-> <<"c">>, conf |-> 90] >>],
      [shape |-> "flat",
       items |-> << [kind |-> "bad", box |-> <<>>, text |-> <<>>, conf |-> 0] >>] }

\* what the collaborators of one run_ocr call may do
Envs(model, do_preprocess) ==
    [ctor_ok  : IF model = "None" THEN BOOLEAN ELSE {TRUE},
     pre_ok   : IF do_preprocess THEN BOOLEAN ELSE {TRUE},
     response : PipeResponses]

PipeInit ==
    /\ pc = "open"
    /\ cfg \in Configs
    /\ doc_len \in 0..MaxDocPages
    /\ i = 0
    /\ all_text = <<>>
    /\ n_images = 0
    /\ pil_img = NoImage
    /\ page_text = <<>>
    /\ result = [kind |-> "pending"]
    /\ ocr_model = "None"
    /\ page_log = NoPage
    /\ paths = <<>>
    /\ ctor_calls = 0
    /\ ctor_failures = 0
    /\ HeurIdle
    /\ DecIdle

globalVars == <<ocr_model, ctor_calls, ctor_failures>>

\* fitz.open returns the document (lines 74-75, 80-81)
OpenDoc ==
    /\ pc = "open"
    /\ pc' = "loop"
    /\ i' = 0
    /\ UNCHANGED <<cfg, doc_len, all_text, n_images, pil_img, page_text, result, page_log,
                   paths, globalVars, heurVars, decVars>>

\* doc[i] raises: the page contributes its marker alone (lines 84, 132-134)
PageRaises ==
    /\ pc = "loop"
    /\ i < total_pages
    /\ page_log' = NoPage
    /\ PageFails
    /\ UNCHANGED <<cfg, doc_len, n_images, page_text, result, globalVars, heurVars, decVars>>

\* lines 86-96: the direct text of the page is tried unless force_ocr
TryDirect ==
    /\ pc = "loop"
    /\ i < total_pages
    /\ \E page \in Pages :
          LET direct_text == direct_text_from_page(page)
          IN  IF cfg.force_ocr
              THEN /\ page_log' = NoPage
                   /\ pc' = "raster"
                   /\ UNCHANGED <<i, all_text, paths>>
              ELSE /\ page_log' = [NoPage EXCEPT !.direct_tried = TRUE,
                                                 !.direct_text = direct_text]
                   /\ IF AcceptDirect(direct_text)
                      THEN /\ all_text' = Append(all_text, Section(i + 1, Strip(direct_text)))
                           /\ paths' = Append(paths, "direct")
                           /\ i' = i + 1
                           /\ pc' = "loop"
                      ELSE /\ pc' = "raster"
                           /\ UNCHANGED <<i, all_text, paths>>
    /\ UNCHANGED <<cfg, doc_len, n_images, pil_img, page_text, result, globalVars, heurVars,
                   decVars>>

\* lines 99-104: the page is rasterized at use_dpi; the renderer may raise
Rasterize ==
    /\ pc = "raster"
    /\ page_log' = [page_log EXCEPT !.use_dpi = use_dpi_of(cfg.dpi)]
    /\ \E size \in PageSizes, ok \in BOOLEAN :
          IF ok
          THEN /\ pil_img' = Rasterized(size, use_dpi_of(cfg.dpi))
               /\ pc' = "ocr"
               /\ UNCHANGED <<i, all_text, paths>>
          ELSE PageFails
    /\ UNCHANGED <<cfg, doc_len, n_images, page_text, result, globalVars, heurVars, decVars>>

\* the outcome of one run_ocr call r, as the orchestrator keeps it
OneCall(r) ==
    [calls |-> <<r.call>>, model |-> r.model, ctor |-> r.ctor,
     ctor_failed |-> r.ctor_failed, raised |-> r.raised, text |-> r.text]

\* the outcome of a call r1 that raised followed by the call r2
TwoCalls(r1, r2) ==
    [calls |-> <<r1.call, r2.call>>, model |-> r2.model, ctor |-> r1.ctor + r2.ctor,
     ctor_failed |-> r1.ctor_failed + r2.ctor_failed, raised |-> r2.raised,
     text |-> r2.text]

\* lines 107-112, r1 being run_ocr(pil_strong, do_preprocess=False): the
\* handler of line 111 reads the raw image when the block raised
StrongAttempt(r1, img, env2) ==
    IF r1.raised THEN TwoCalls(r1, run_ocr(r1.model, img, TRUE, env2)) ELSE OneCall(r1)

\* the run_ocr calls of lines 105-114.  strong_mode: the page is first
\* preprocessed with strong=True (pre_ok: that call returns) and read with
\* do_preprocess=False; the handler of line 111 reads the raw image
\* instead.  Otherwise the raw image is read.  Gives the calls made, the
\* global after them, the text, and whether an exception leaves the block.
first_attempt(model, img, strong_mode, pre_ok, env1, env2) ==
    IF strong_mode /\ pre_ok
    THEN StrongAttempt(run_ocr(model, preprocess_pil_image(img, TRUE), FALSE, env1), img, env2)
    ELSE OneCall(run_ocr(model, img, TRUE, env1))

\* the state after the first attempt ended as r
AfterFirst(r) ==
    /\ ocr_model' = r.model
    /\ ctor_calls' = ctor_calls + r.ctor
    /\ ctor_failures' = ctor_failures + r.ctor_failed
    /\ page_log' = [page_log EXCEPT !.calls = page_log.calls \o r.calls]
    /\ IF r.raised
       THEN /\ PageFails
            /\ UNCHANGED page_text
       ELSE /\ page_text' = r.text
            /\ pc' = IF NeedsRetry(cfg.strong_mode, r.text) THEN "retry" ELSE "emit"
            /\ UNCHANGED <<i, all_text, paths, pil_img>>

\* lines 105-114: the first OCR attempt of the page
FirstOcr ==
    /\ pc = "ocr"
    /\ \E pre_ok \in (IF cfg.strong_mode THEN BOOLEAN ELSE {TRUE}) :
       \E env1 \in Envs(ocr_model, ~(cfg.strong_mode /\ pre_ok)) :
          AfterFirst(first_attempt(ocr_model, pil_img, cfg.strong_mode, pre_ok, env1, env1))
    /\ UNCHANGED <<cfg, doc_len, n_images, result, heurVars, decVars>>

\* the state after the second attempt ended as r
AfterRetry(r) ==
    /\ ocr_model' = r.model
    /\ ctor_calls' = ctor_calls + r.ctor
    /\ ctor_failures' = ctor_failures + r.ctor_failed
    /\ page_log' = [page_log EXCEPT !.calls = Append(page_log.calls, r.call)]
    /\ page_text' = IF r.raised THEN page_text ELSE r.text

\* lines 115-122: the second attempt, on the strong-preprocessed copy of the
\* raster with do_preprocess=False; an exception of the block is passed over
RetryStrong ==
    /\ pc = "retry"
    /\ \E pre_ok \in BOOLEAN :
          IF pre_ok
          THEN \E env \in Envs(ocr_model, FALSE) :
                  AfterRetry(run_ocr(ocr_model, preprocess_pil_image(pil_img, TRUE), FALSE, env))
          ELSE UNCHANGED <<ocr_model, ctor_calls, ctor_failures, page_log, page_text>>
    /\ pc' = "emit"
    /\ UNCHANGED <<cfg, doc_len, i, all_text, n_images, pil_img, result, paths, heurVars,
                   decVars>>

\* lines 123-130: the section of a page read by OCR
Emit ==
    /\ pc = "emit"
    /\ all_text' = Append(all_text,
                          Section(i + 1, IF Strip(page_text) # <<>> THEN page_text ELSE <<>>))
    /\ paths' = Append(paths, IF Strip(page_text) # <<>> THEN "ocr" ELSE "empty")
    /\ pil_img' = NoImage
    /\ i' = i + 1
    /\ pc' = "loop"
    /\ page_log' = [page_log EXCEPT !.calls = <<>>]
    /\ UNCHANGED <<cfg, doc_len, n_images, page_text, result, globalVars, heurVars, decVars>>

\* lines 138-139: return "\n\n".join(all_text)
Finish ==
    /\ pc = "loop"
    /\ i = total_pages
    /\ result' = [kind |-> "returned", text |-> Join(all_text, <<NL, NL>>)]
    /\ pc' = "done"
    /\ UNCHANGED <<cfg, doc_len, i, all_text, n_images, pil_img, page_text, page_log,
                   paths, globalVars, heurVars, decVars>>

(***************************************************************************)
(* The all-pages-OCR path (pdf_utils.py 8-56, 76-78, 169-193)              *)
(***************************************************************************)
\* fitz.open raises: the call returns what the all-pages-OCR path returns
OpenFails ==
    /\ pc = "open"
    /\ pc' = "alt"
    /\ UNCHANGED <<cfg, doc_len, i, all_text, n_images, pil_img, page_text, result,
                   page_log, paths, globalVars, heurVars, decVars>>

\* pdf_to_images: how many images it returns for a document of n pages, or
\* that it raises.  conv is the converter that succeeds: "pdf2image"
\* (last_page=min(max_pages, 20), then images[:max_pages]), "fitz" (the
\* fallback, min(len(pdf_doc), max_pages) pages) or "none" (both raise).
pdf_to_images(n, max_pages, conv) ==
    LET last  == IF max_pages < 20 THEN max_pages ELSE 20
        taken == IF n < last THEN n ELSE last
    IN  IF conv = "pdf2image"
        THEN [raised |-> FALSE, n |-> IF taken < max_pages THEN taken ELSE max_pages]
        ELSE IF conv = "fitz"
        THEN [raised |-> FALSE, n |-> IF n < max_pages THEN n ELSE max_pages]
        ELSE [raised |-> TRUE, n |-> 0]

\* the state after pdf_to_images ended as r (lines 174-178)
AfterConvert(r) ==
    IF r.raised \/ r.n = 0
    THEN /\ result' = [kind |-> "raised"]
         /\ pc' = "failed"
         /\ UNCHANGED <<i, n_images>>
    ELSE /\ n_images' = r.n
         /\ i' = 0
         /\ pc' = "alt_loop"
         /\ UNCHANGED result

AltConvert ==
    /\ pc = "alt"
    /\ \E conv \in {"pdf2image", "fitz", "none"} :
          AfterConvert(pdf_to_images(doc_len, cfg.max_pages, conv))
    /\ UNCHANGED <<cfg, doc_len, all_text, pil_img, page_text, page_log, paths,
                   globalVars, heurVars, decVars>>

\* the state after run_ocr(img) ended as r (lines 182-186): the section is
\* appended only when the text is not empty after strip()
AfterAltOcr(r) ==
    /\ ocr_model' = r.model
    /\ ctor_calls' = ctor_calls + r.ctor
    /\ ctor_failures' = ctor_failures + r.ctor_failed
    /\ page_log' = [NoPage EXCEPT !.use_dpi = use_dpi_of(cfg.dpi), !.calls = <<r.call>>]
    /\ IF ~r.raised /\ Strip(r.text) # <<>>
       THEN /\ all_text' = Append(all_text, Section(i + 1, r.text))
            /\ paths' = Append(paths, "ocr")
            /\ page_text' = r.text
       ELSE UNCHANGED <<all_text, paths, page_text>>

\* one iteration of the loop of lines 179-189
AltPage ==
    /\ pc = "alt_loop"
    /\ i < n_images
    /\ \E size \in PageSizes :
       \E env \in Envs(ocr_model, TRUE) :
          AfterAltOcr(run_ocr(ocr_model, Rasterized(size, use_dpi_of(cfg.dpi)), TRUE, env))
    /\ i' = i + 1
    /\ UNCHANGED <<pc, cfg, doc_len, n_images, pil_img, result, heurVars, decVars>>

\* line 193
AltFinish ==
    /\ pc = "alt_loop"
    /\ i = n_images
    /\ result' = [kind |-> "returned", text |-> Join(all_text, <<NL, NL>>)]
    /\ pc' = "done"
    /\ UNCHANGED <<cfg, doc_len, i, all_text, n_images, pil_img, page_text, page_log,
                   paths, globalVars, heurVars, decVars>>

Next ==
    \/ OpenDoc
    \/ PageRaises
    \/ TryDirect
    \/ Rasterize
    \/ FirstOcr
    \/ RetryStrong
    \/ Emit
    \/ Finish
    \/ OpenFails
    \/ AltConvert
    \/ AltPage
    \/ AltFinish

Spec == PipeInit /\ [][Next]_vars

(***************************************************************************)
(* Properties of _merge_boxes_into_words                                   *)
(***************************************************************************)
\* twice the median height of the decoded legacy response
DecMed2 == Median2([k \in 1..Len(DecBoxes) |-> DecBoxes[k].height])

\* the position in the output of the text of box b
OutPosOf(b) == CHOOSE k \in 1..Len(dec_out) : dec_out[k] = b.text[1]

\* in the left-to-right order of a line a comes before b: by left edge, two
\* equal left edges in the order of the output
LeftOf(a, b) ==
    a.left < b.left \/ (a.left = b.left /\ OutPosOf(a) < OutPosOf(b))

\* a and b are horizontal neighbours of one output line of the boxes bx
Neighbours(bx, a, b) ==
    /\ a # b
    /\ OutLineOf(a) = OutLineOf(b)
    /\ LeftOf(a, b)
    /\ \A j \in 1..Len(bx) :
           (bx[j] # a /\ bx[j] # b /\ OutLineOf(bx[j]) = OutLineOf(a))
               => ~(LeftOf(a, bx[j]) /\ LeftOf(bx[j], b))

\* a space of the output stands between two detection texts
SpacesAreSingle ==
    \A k \in 1..Len(dec_out) :
        dec_out[k] = SP =>
            /\ 1 < k /\ k < Len(dec_out)
            /\ dec_out[k - 1] \notin {SP, NL}
            /\ dec_out[k + 1] \notin {SP, NL}

\* C11: two horizontally adjacent detections of a line whose gap (left of the
\* next minus right of the previous) is below 70% of the median height are
\* concatenated with no space between them, a gap above that threshold
\* starts a new word, and the words of a line are joined by exactly one space.
C11_WordsByGap ==
    (dec_pc = "done" /\ DecLegacy /\ DecBoxes # <<>>) =>
        LET bx   == DecBoxes
            med2 == DecMed2
        IN  /\ SpacesAreSingle
            /\ \A k, m \in 1..Len(bx) :
                   Neighbours(bx, bx[k], bx[m]) =>
                       LET gap == bx[m].left - bx[k].right
                           p   == OutPosOf(bx[k])
                           q   == OutPosOf(bx[m])
                       IN  /\ 20 * gap < 7 * med2 => q = p + 1
                           /\ 20 * gap > 7 * med2 =>
                                  (q = p + 2 /\ dec_out[p + 1] = SP)

\* three detections of small height in one line: two at the same left edge
\* are concatenated, the third, 6 pixels to the right, is a word of its own
C11_Witness ==
    /\ dec_pc = "done" /\ DecLegacy /\ Len(DecBoxes) = 3
    /\ DecMed2 = 4
    /\ Len(dec_out) = 4
    /\ dec_out[3] = SP
    /\ \E k, m \in 1..3 :
          /\ Neighbours(DecBoxes, DecBoxes[k], DecBoxes[m])
          /\ DecBoxes[m].left - DecBoxes[k].right = 6
          /\ OutPosOf(DecBoxes[k]) = 2 /\ OutPosOf(DecBoxes[m]) = 4

(***************************************************************************)
(* Properties of extract_all_pages_text                                    *)
(***************************************************************************)
\* the body of a section: what follows the marker line
BodyOf(section) == SubSeq(section, 3, Len(section))

\* the markers of a result text, in order
MarkersOf(text) == SelectSeq(text, LAMBDA tok : \E k \in 1..doc_len : tok = Marker(k))

\* the page of page_log is being read by OCR
InOcrPath == pc \in {"raster", "ocr", "retry", "emit"}

\* the page of page_log is finished: its section is all_text[i]
PageFinished == pc \in {"loop", "done"} /\ i >= 1 /\ Len(all_text) = i

\* C1 as stated: with force_ocr=false, every page whose direct text is not
\* flagged by _looks_corrupted_text (texts of 20 to 24 characters included)
\* has the direct text as its section body and never reaches run_ocr.
C1_EveryCleanTextIsKept ==
    (page_log.direct_tried /\ ~looks_corrupted_text(page_log.direct_text)) =>
        /\ ~InOcrPath
        /\ page_log.calls = <<>>
        /\ PageFinished
        /\ BodyOf(all_text[i]) = page_log.direct_text

\* C1 amended: with force_ocr=false, every page whose direct text has at
\* least 25 characters after strip() and is not flagged has the direct text
\* verbatim as its section body, is never rasterized and never reaches
\* run_ocr.
C1_CleanLongTextIsKept ==
    (/\ page_log.direct_tried
     /\ Len(Strip(page_log.direct_text)) >= 25
     /\ ~looks_corrupted_text(page_log.direct_text)) =>
        /\ ~InOcrPath
        /\ page_log.calls = <<>>
        /\ page_log.use_dpi = 0
        /\ PageFinished
        /\ paths[i] = "direct"
        /\ BodyOf(all_text[i]) = page_log.direct_text

\* a second page was accepted on its direct text of 25 characters or more
C1_Witness ==
    /\ pc = "loop" /\ i = 2
    /\ page_log.direct_tried
    /\ Len(page_log.direct_text) >= 25
    /\ ~looks_corrupted_text(page_log.direct_text)
    /\ paths[i] = "direct"
    /\ all_text[i] = Section(2, page_log.direct_text)

\* the call went through the primary reader and returned
PrimaryDone == pc = "done" /\ n_images = 0

\* C2: when the primary reader opens a document of N pages, the result holds
\* exactly min(N, max_pages) sections with the markers 1, 2, ... in order,
\* whatever the outcome of each page; a page that raises contributes its
\* marker with an empty body and the later pages are still processed.
C2_OneSectionPerPage ==
    /\ (pc \in {"loop", "raster", "ocr", "retry", "emit"}) =>
           /\ Len(all_text) = i
           /\ i <= total_pages
           /\ \A k \in 1..Len(all_text) :
                  /\ all_text[k][1] = Marker(k)
                  /\ paths[k] = "error" => all_text[k] = <<Marker(k), NL>>
    /\ PrimaryDone =>
           /\ Len(all_text) = total_pages
           /\ MarkersOf(result.text) = [k \in 1..total_pages |-> Marker(k)]

\* a document longer than max_pages whose first page raised and whose second
\* page was read by OCR
C2_Witness ==
    /\ PrimaryDone
    /\ doc_len > cfg.max_pages
    /\ paths = <<"error", "ocr">>
    /\ MarkersOf(result.text) = <<Marker(1), Marker(2)>>

\* C3: a page that enters OCR sees run_ocr at most twice; the second call
\* happens only when strong_mode is off and the first text is empty after
\* strip(), it reads the strong-preprocessed copy of the same raster with
\* do_preprocess=False, and its text replaces the first.
C3_AtMostOneRetry ==
    (pc \in {"ocr", "retry", "emit", "loop"}) =>
        /\ Len(page_log.calls) <= 2
        /\ (pc = "emit") => Len(page_log.calls) >= 1
        /\ (pc = "emit" /\ Len(page_log.calls) = 1) =>
               page_text = page_log.calls[1].text
        /\ Len(page_log.calls) = 2 =>
               /\ ~cfg.strong_mode
               /\ Strip(page_log.calls[1].text) = <<>>
               /\ page_log.calls[1].img = pil_img
               /\ page_log.calls[2].do_preprocess = FALSE
               /\ page_log.calls[2].img = preprocess_pil_image(pil_img, TRUE)
               /\ page_log.calls[2].pre = "skipped"
               /\ page_text = page_log.calls[2].text

\* a first text of white space only was replaced by the text of the retry
C3_Witness ==
    /\ pc = "emit"
    /\ Len(page_log.calls) = 2
    /\ page_log.calls[1].text = <<SP>>
    /\ page_text = <<"a">>

\* C4 as stated: run_ocr never raises, and any failure of engine
\* acquisition, preprocessing, the engine's ocr call or response decoding
\* makes it return the empty string.
C4_AnyFailureGivesEmpty ==
    \A k \in 1..Len(page_log.calls) :
        /\ ~page_log.calls[k].raised
        /\ (page_log.calls[k].failure # "none" \/ page_log.calls[k].pre = "raised")
               => page_log.calls[k].text = <<>>

\* C4 amended: run_ocr never raises; a failure of engine acquisition, of the
\* engine's ocr call or of decoding the response makes it return the empty
\* string; a failure of its own preprocessing step is caught on the spot and
\* the engine reads the image as it was given.
C4_NeverRaises ==
    \A k \in 1..Len(page_log.calls) :
        /\ ~page_log.calls[k].raised
        /\ page_log.calls[k].failure # "none" => page_log.calls[k].text = <<>>
        /\ page_log.calls[k].pre = "raised" =>
               page_log.calls[k].arr = Thumbnail(page_log.calls[k].img)

\* the engine could not be built for the first call of a page, the call
\* returned the empty string and the retry is about to run
C4_Witness ==
    /\ pc = "retry"
    /\ Len(page_log.calls) = 1
    /\ page_log.calls[1].failure = "acquire"
    /\ page_log.calls[1].text = <<>>
    /\ ~page_log.calls[1].raised

\* C5: if the OCR engine fails to initialize, the run fails at once with an
\* error for the caller; it does not go on to return markers with empty
\* bodies.
C5_EngineFailureIsFatal ==
    ctor_failures > 0 => (pc = "failed" /\ result.kind = "raised")

\* C6: over the run_ocr calls of a process, failed constructions included,
\* the engine constructor is invoked at most once.
C6_ConstructorAtMostOnce == ctor_calls <= 1

\* the second half of C6 (it holds): once _ocr_model is set it is never
\* assigned again
MemoNeverReassigned == [][ocr_model # "None" => ocr_model' = ocr_model]_vars

\* C7: with force_ocr=false, every page whose direct text is flagged goes to
\* OCR whatever its length, is rasterized at max(300, dpi) >= 300, and its
\* section body is the OCR text or empty, never the direct text.
C7_CorruptedGoesToOcr ==
    (page_log.direct_tried /\ looks_corrupted_text(page_log.direct_text)) =>
        /\ InOcrPath \/ PageFinished
        /\ pc # "raster" =>
               /\ page_log.use_dpi >= 300
               /\ page_log.use_dpi >= cfg.dpi
               /\ page_log.use_dpi \in {300, cfg.dpi}
        /\ pc \in {"ocr", "retry", "emit"} =>
               \E size \in PageSizes : pil_img = Rasterized(size, page_log.use_dpi)
        /\ pc \in {"retry", "emit"} => Len(page_log.calls) >= 1
        /\ PageFinished =>
               /\ paths[i] \in {"ocr", "empty", "error"}
               /\ BodyOf(all_text[i]) = IF paths[i] = "ocr" THEN page_text ELSE <<>>

\* a flagged direct text of 25 characters or more, dpi=200: the page was
\* rasterized at 300 and its section holds the OCR text
C7_Witness ==
    /\ PageFinished /\ pc = "loop"
    /\ cfg.dpi = 200
    /\ page_log.direct_tried
    /\ Len(Strip(page_log.direct_text)) >= 25
    /\ looks_corrupted_text(page_log.direct_text)
    /\ page_log.use_dpi = 300
    /\ paths[i] = "ocr"
    /\ BodyOf(all_text[i]) = <<"a">>

\* C12: an input error (not a PDF, an empty document, zero convertible
\* pages) makes the call fail with an error and no result string: on either
\* path a run that processed zero pages never returns normally.
C12_ZeroPagesNeverReturn == result.kind = "returned" => i >= 1

\* the call went through the all-pages-OCR path and returned
AltDone == pc = "done" /\ n_images > 0

\* C13: on the all-pages-OCR path a page whose OCR text is empty or whose
\* processing raises still emits its marker with an empty body: the output
\* has one marker per converted page, the k-th marker labelling the k-th page.
C13_AltOneMarkerPerPage ==
    AltDone =>
        /\ Len(all_text) = n_images
        /\ MarkersOf(result.text) = [k \in 1..n_images |-> Marker(k)]

\* the half of C13 that holds: the markers of the all-pages-OCR path carry
\* the indices of their pages, in increasing order
AltMarkersLabelPages ==
    AltDone =>
        \E pages \in SUBSET (1..n_images) :
            /\ Cardinality(pages) = Len(all_text)
            /\ \A k \in 1..Len(all_text) :
                   /\ all_text[k][1] \in {Marker(j) : j \in pages}
                   /\ \A m \in 1..Len(all_text) :
                          k < m => \E a, b \in pages :
                                      /\ a < b
                                      /\ all_text[k][1] = Marker(a)
                                      /\ all_text[m][1] = Marker(b)

\* the first run_ocr call of the page of page_log on the primary path
FirstCallMade == pc \in {"retry", "emit"} /\ n_images = 0 /\ Len(page_log.calls) >= 1

\* C14: on the first OCR attempt of a page the preprocessor runs with strong
\* equal to the caller's strong_mode: with strong_mode=false the first attempt
\* never applies strong preprocessing, whatever the size of the raster.
C14_FirstAttemptStrongIsFlag ==
    FirstCallMade =>
        LET first == page_log.calls[1]
        IN  /\ first.img.strong => cfg.strong_mode
            /\ first.pre \in {"strong", "normal"} =>
                   ((first.pre = "strong") <=> cfg.strong_mode)

====
